---- MODULE Spec2Model ----
(***************************************************************************)
(* A model of the GameCache configuration and BGG token set-up code:       *)
(*   scripts/gamecache/config.py   parse_config_file, create_nested_config *)
(*   scripts/setup_bgg_token.py    get_bgg_username_from_config,           *)
(*                                 generate_token_via_worker,              *)
(*                                 save_token_to_config, main              *)
(* Text is modelled character by character: a Python str is a sequence of  *)
(* one-character strings, a file is a record [exists, data].               *)
(***************************************************************************)
EXTENDS Integers, Sequences, FiniteSets, TLC

VARIABLES
    fs,           \* the file system: path -> [exists, data]
    environ,      \* os.environ's GAMECACHE_BGG_TOKEN: [set, val]
    flat,         \* the flat config handed to create_nested_config
    parsed,       \* outcome of the last parse_config_file call
    nested,       \* outcome of the last create_nested_config call
    pc,           \* per run: position in main / save_token_to_config
    username,     \* per run: main's local `username`
    token,        \* per run: main's local `token` (save's argument)
    config_path,  \* per run: save_token_to_config's config_path argument
    env_lines,    \* per run: save_token_to_config's local env_lines
    response,     \* per run: what make_json_request did
    requests,     \* per run: number of remote calls sent
    exit_status,  \* per run: process exit status (-1 while running)
    out,          \* per run: the messages printed, in order
    hist          \* history: snapshots the properties refer to

runVars == <<pc, username, token, config_path, env_lines, response, requests,
             exit_status, out>>
vars == <<fs, environ, flat, parsed, nested, pc, username, token, config_path,
          env_lines, response, requests, exit_status, out, hist>>

----------------------------------------------------------------------------
(* Bounds of the model.                                                    *)

MaxLines == 3      \* lines of a generated config file
MaxValLen == 3     \* characters of a generated config value
MaxEnvLines == 2   \* lines of a generated .env file
MaxNormLines == 2  \* lines of a generated .env file read by the normalizer
MaxSaves == 2      \* save_token_to_config calls in one behaviour

----------------------------------------------------------------------------
(* Python str operations, on sequences of characters.                      *)

NAME == <<"G", "A", "M", "E", "C", "A", "C", "H", "E", "_", "B", "G", "G", "_", "T", "O", "K", "E", "N">>
K_TITLE == <<"t", "i", "t", "l", "e">>
K_BGG_USERNAME == <<"b", "g", "g", "_", "u", "s", "e", "r", "n", "a", "m", "e">>
K_GITHUB_REPO == <<"g", "i", "t", "h", "u", "b", "_", "r", "e", "p", "o">>
K_BGG_TOKEN == <<"b", "g", "g", "_", "t", "o", "k", "e", "n">>

NL == "\n"
EQ == "="
DQ == "\""
SQ == "'"

IsSpace(c) == c \in {" ", "\t", "\n"}

SetMin(S) == CHOOSE x \in S : \A y \in S : x <= y
SetMax(S) == CHOOSE x \in S : \A y \in S : x >= y

\* str.strip()
Strip(s) ==
    LET keep == {i \in 1..Len(s) : ~IsSpace(s[i])}
    IN  IF keep = {} THEN <<>> ELSE SubSeq(s, SetMin(keep), SetMax(keep))

\* str.startswith(p), str.endswith(p)
StartsWith(s, p) == Len(s) >= Len(p) /\ SubSeq(s, 1, Len(p)) = p
EndsWith(s, p) == Len(s) >= Len(p) /\ SubSeq(s, Len(s) - Len(p) + 1, Len(s)) = p

\* c in s
Contains(s, c) == \E i \in 1..Len(s) : s[i] = c

\* s.find(c) + 1 (0 when c does not occur)
Find(s, c) ==
    IF Contains(s, c) THEN SetMin({i \in 1..Len(s) : s[i] = c}) ELSE 0

\* s.split(c, 1) for a string that contains c: <<before, after>>
Split1(s, c) ==
    LET i == Find(s, c)
    IN  <<SubSeq(s, 1, i - 1), SubSeq(s, i + 1, Len(s))>>

\* s[1:-1]
Inner(s) == SubSeq(s, 2, Len(s) - 1)

\* the lines a text-mode file iteration yields, each with its terminator
RECURSIVE ReadLines(_)
ReadLines(s) ==
    IF s = <<>> THEN <<>>
    ELSE LET i == Find(s, NL)
         IN  IF i = 0 THEN <<s>>
             ELSE <<SubSeq(s, 1, i)>> \o ReadLines(SubSeq(s, i + 1, Len(s)))

\* f.writelines(lines): the strings one after the other, nothing added
RECURSIVE WriteLines(_)
WriteLines(lines) ==
    IF lines = <<>> THEN <<>> ELSE Head(lines) \o WriteLines(Tail(lines))

----------------------------------------------------------------------------
(* The file system.                                                        *)

CWD == "."
REPO == "repo"
Dirs == {CWD, REPO}
CONFIG_INI == "config.ini"
DOT_ENV == ".env"
FileNames == {CONFIG_INI, DOT_ENV}
Paths == [dir : Dirs, name : FileNames]

PathOf(d, n) == [dir |-> d, name |-> n]
NoFile == [exists |-> FALSE, data |-> <<>>]
File(data) == [exists |-> TRUE, data |-> data]
EmptyFs == [p \in Paths |-> NoFile]

----------------------------------------------------------------------------
(* config.py: parse_config_file                                            *)

EmptyMap == [k \in {} |-> <<>>]
Put(m, k, v) == [x \in DOMAIN m \cup {k} |-> IF x = k THEN v ELSE m[x]]

\* is_skipped without line 22's second test: comment lines are not skipped
is_skipped_blank_only(line) == line = <<>>

\* config.py:22  `not line or line.startswith('#')`
is_skipped(line) == line = <<>> \/ StartsWith(line, <<"#">>)

\* config.py:33-37  quote removal
strip_quotes(value) ==
    IF StartsWith(value, <<DQ>>) /\ EndsWith(value, <<DQ>>) THEN Inner(value)
    ELSE IF StartsWith(value, <<SQ>>) /\ EndsWith(value, <<SQ>>) THEN Inner(value)
    ELSE value

NotParsed == [status |-> "none", config |-> EmptyMap, line_num |-> 0, line |-> <<>>]

\* config.py:18-39  the loop over enumerate(f, 1), from line number n on
RECURSIVE parse_lines(_, _, _)
parse_lines(lines, n, config) ==
    IF n > Len(lines)
    THEN [status |-> "ok", config |-> config, line_num |-> 0, line |-> <<>>]
    ELSE LET line == Strip(lines[n])
         IN  IF is_skipped(line) THEN parse_lines(lines, n + 1, config)
             ELSE IF ~Contains(line, EQ)
             THEN [status |-> "ValueError", config |-> EmptyMap,
                   line_num |-> n, line |-> line]
             ELSE LET kv == Split1(line, EQ)
                      key == Strip(kv[1])
                      value == strip_quotes(Strip(kv[2]))
                  IN  parse_lines(lines, n + 1, Put(config, key, value))

\* config.py:9-41
parse_config_file(files, path) ==
    IF ~files[path].exists
    THEN [status |-> "FileNotFoundError", config |-> EmptyMap,
          line_num |-> 0, line |-> <<>>]
    ELSE parse_lines(ReadLines(files[path].data), 1, EmptyMap)

----------------------------------------------------------------------------
(* config.py: create_nested_config                                         *)

TOKEN_PREFIX == NAME \o <<EQ>>

\* env_locations in the other order: the repository root is looked at first
env_locations_root_first == <<PathOf(REPO, DOT_ENV), PathOf(CWD, DOT_ENV)>>

\* config.py:64-67  Path('.env'), then <repo root>/.env
env_locations == <<PathOf(CWD, DOT_ENV), PathOf(REPO, DOT_ENV)>>

\* config.py:71-75  the scan of one file's lines from line i on; bgg_token is
\* the value held so far (None and '' are both the empty sequence: the code
\* only ever tests the value's truth)
RECURSIVE scan_env_lines(_, _, _)
scan_env_lines(lines, i, bgg_token) ==
    IF i > Len(lines) THEN bgg_token
    ELSE LET line == Strip(lines[i])
         IN  IF StartsWith(line, TOKEN_PREFIX)
             THEN Strip(Split1(line, EQ)[2])
             ELSE scan_env_lines(lines, i + 1, bgg_token)

\* config.py:68-77  the loop over env_locations from location j on
RECURSIVE scan_env_locations(_, _, _)
scan_env_locations(files, j, bgg_token) ==
    IF j > Len(env_locations) THEN bgg_token
    ELSE LET env_file == env_locations[j]
             found == IF files[env_file].exists
                      THEN scan_env_lines(ReadLines(files[env_file].data), 1, bgg_token)
                      ELSE bgg_token
         IN  IF files[env_file].exists /\ found # <<>> THEN found
             ELSE scan_env_locations(files, j + 1, found)

RequiredKeys == <<K_TITLE, K_BGG_USERNAME, K_GITHUB_REPO>>

\* config.py:44-85
create_nested_config(config, env, files) ==
    LET missing == {i \in 1..3 : RequiredKeys[i] \notin DOMAIN config}
    IN  IF missing # {}
        THEN [status |-> "KeyError", key |-> RequiredKeys[SetMin(missing)]]
        ELSE LET from_env == IF env.set THEN env.val ELSE <<>>
                 bgg_token == IF from_env = <<>>
                              THEN scan_env_locations(files, 1, from_env)
                              ELSE from_env
                 user == "user_name" :> config[K_BGG_USERNAME]
             IN  [status |-> "ok",
                  project |-> [title |-> config[K_TITLE]],
                  boardgamegeek |->
                      IF bgg_token # <<>> THEN user @@ ("token" :> bgg_token)
                      ELSE IF K_BGG_TOKEN \in DOMAIN config
                      THEN user @@ ("token" :> config[K_BGG_TOKEN])
                      ELSE user,
                  github |-> [repo |-> config[K_GITHUB_REPO]]]

----------------------------------------------------------------------------
(* Python values that reach the script from JSON: None, bool, int, str.    *)

None == [t |-> "null", b |-> FALSE, n |-> 0, s |-> <<>>]
JBool(x) == [t |-> "bool", b |-> x, n |-> 0, s |-> <<>>]
JNum(x) == [t |-> "num", b |-> FALSE, n |-> x, s |-> <<>>]
JStr(x) == [t |-> "str", b |-> FALSE, n |-> 0, s |-> x]

\* bool(v)
Truthy(v) ==
    CASE v.t = "null" -> FALSE
      [] v.t = "bool" -> v.b
      [] v.t = "num" -> v.n # 0
      [] v.t = "str" -> v.s # <<>>

Digits == <<"0", "1", "2", "3", "4", "5", "6", "7", "8", "9">>

\* f'{v}' (numbers here are single digits)
Format(v) ==
    CASE v.t = "null" -> <<"N", "o", "n", "e">>
      [] v.t = "bool" -> IF v.b THEN <<"T", "r", "u", "e">> ELSE <<"F", "a", "l", "s", "e">>
      [] v.t = "num" -> <<Digits[v.n + 1]>>
      [] v.t = "str" -> v.s

\* one print(...) call: what is said, and the value shown in it
Msg(m) == [msg |-> m, val |-> <<>>]
MsgVal(m, v) == [msg |-> m, val |-> v]
Said(o, m) == \E i \in 1..Len(o) : o[i].msg = m

----------------------------------------------------------------------------
(* setup_bgg_token.py: get_bgg_username_from_config                        *)

\* setup_bgg_token.py:17-53; a None result is the empty username (main only
\* tests its truth)
get_bgg_username_from_config(files, path) ==
    LET r == parse_config_file(files, path)
        u == IF K_BGG_USERNAME \in DOMAIN r.config THEN r.config[K_BGG_USERNAME] ELSE <<>>
    IN  IF r.status = "FileNotFoundError"
        THEN [username |-> <<>>, out |-> <<Msg("banner"), Msg("config_not_found")>>]
        ELSE IF r.status = "ValueError"
        THEN [username |-> <<>>, out |-> <<Msg("banner"), Msg("error_reading_config")>>]
        ELSE IF u = <<>>
        THEN [username |-> <<>>, out |-> <<Msg("banner"), Msg("username_not_found")>>]
        ELSE [username |-> u, out |-> <<Msg("banner"), MsgVal("read_username", u)>>]

----------------------------------------------------------------------------
(* setup_bgg_token.py: generate_token_via_worker                           *)

\* the outcomes of gamecache.http_client.make_json_request: it raises (the
\* message holds some of the words the handler looks for) or returns the
\* parsed JSON: nothing, an object, or a non-empty array
Keywords == {"timed out", "timeout", "connection"}
Payload(kind, hs, sv, ht, tv, other) ==
    [kind |-> kind, has_success |-> hs, success |-> sv, has_token |-> ht,
     token |-> tv, other |-> other]
NoPayload == Payload("none", FALSE, None, FALSE, None, FALSE)
ListPayload == Payload("list", FALSE, None, FALSE, None, FALSE)
Raised(words) == [raised |-> TRUE, words |-> words, data |-> NoPayload]
Returned(data) == [raised |-> FALSE, words |-> {}, data |-> data]
NoResponse == [raised |-> FALSE, words |-> {}, data |-> NoPayload]

\* data.get(key): None for a missing key
PayloadGet(data, key) ==
    IF key = "success" THEN (IF data.has_success THEN data.success ELSE None)
    ELSE (IF data.has_token THEN data.token ELSE None)

\* bool(data): None and {} are false
PayloadTruthy(data) ==
    \/ data.kind = "list"
    \/ data.kind = "dict" /\ (data.has_success \/ data.has_token \/ data.other)

\* setup_bgg_token.py:89-97  the exception handler, on str(e).lower()
transport_error_message(words) ==
    IF "timed out" \in words \/ "timeout" \in words THEN Msg("request_timed_out")
    ELSE IF "connection" \in words THEN Msg("connection_error")
    ELSE Msg("error_generating_token")

\* accepts without line 78's second test: the success flag is not looked at
accepts_any_token(data) == PayloadTruthy(data) /\ Truthy(PayloadGet(data, "token"))

\* setup_bgg_token.py:78  `data and data.get('success') and data.get('token')`
\* for an object (or nothing) as data
accepts(data) ==
    /\ PayloadTruthy(data)
    /\ Truthy(PayloadGet(data, "success"))
    /\ Truthy(PayloadGet(data, "token"))

\* setup_bgg_token.py:56-97; r is what make_json_request did
generate_token_via_worker(r) ==
    IF r.raised
    THEN [token |-> None, out |-> <<Msg("generating"), transport_error_message(r.words)>>]
    ELSE IF r.data.kind = "list"
    \* list.get raises AttributeError, caught by the same handler
    THEN [token |-> None, out |-> <<Msg("generating"), transport_error_message({})>>]
    ELSE IF accepts(r.data)
    THEN [token |-> r.data.token, out |-> <<Msg("generating"), Msg("token_generated")>>]
    ELSE IF PayloadTruthy(r.data)
    THEN [token |-> None, out |-> <<Msg("generating"), Msg("unexpected_response")>>]
    ELSE [token |-> None, out |-> <<Msg("generating"), Msg("no_response_data")>>]

----------------------------------------------------------------------------
(* setup_bgg_token.py: save_token_to_config                                *)

\* env_file_of without lines 110-111: the config file itself is taken
env_file_is_config(path) == path

\* setup_bgg_token.py:109-111  Path(config_path).parent / '.env'
env_file_of(path) == PathOf(path.dir, DOT_ENV)

\* setup_bgg_token.py:122,129  f'GAMECACHE_BGG_TOKEN={token}\n'
canonical_line(tok) == NAME \o <<EQ>> \o Format(tok) \o <<NL>>

\* setup_bgg_token.py:119-125  the loop over the file's lines
rewrite_lines(lines, tok) ==
    [i \in 1..Len(lines) |->
        IF StartsWith(Strip(lines[i]), NAME) THEN canonical_line(tok) ELSE lines[i]]

\* setup_bgg_token.py:123  token_exists after the loop
token_exists(lines) == \E i \in 1..Len(lines) : StartsWith(Strip(lines[i]), NAME)

\* setup_bgg_token.py:114-129  env_lines as computed from the file's state
compute_env_lines(file, tok) ==
    LET lines == IF file.exists THEN ReadLines(file.data) ELSE <<>>
    IN  IF token_exists(lines) THEN rewrite_lines(lines, tok)
        ELSE Append(rewrite_lines(lines, tok), canonical_line(tok))

\* a buffered write of buf at offset 0 of a file that holds old
WriteAt0(buf, old) == buf \o SubSeq(old, Len(buf) + 1, Len(old))

----------------------------------------------------------------------------
(* Inputs.                                                                 *)

SeqsUpTo(S, n) == UNION {[1..k -> S] : k \in 0..n}

Str_k == <<"k">>
QuoteAlphabet == {DQ, SQ, "a", " "}
\* one-line files  k=<value>  for every value over the quote alphabet
QuoteFiles == {Str_k \o <<EQ>> \o v \o <<NL>> : v \in SeqsUpTo(QuoteAlphabet, MaxValLen)}

ConfigLinePalette ==
    { <<>>, <<" ">>, <<"#">>, <<" ", "#", "c", "=", "1">>,
      <<"a", "=", "1">>, <<"a", "=", "2">>, <<"b", " ", "=", " ", "1", " ">>,
      <<"a", "b">>, <<" ", "x", "#">>, <<"=", "v">> }
Terminated(lines) == [i \in DOMAIN lines |-> lines[i] \o <<NL>>]
ParseFiles ==
    {WriteLines(Terminated(ls)) : ls \in SeqsUpTo(ConfigLinePalette, MaxLines)}

DefaultConfig == PathOf(CWD, CONFIG_INI)

\* the runs of a behaviour: procs at position at, holding the tokens toks
Runs(procs, at, toks) ==
    /\ pc = [p \in procs |-> at]
    /\ username = [p \in procs |-> <<>>]
    /\ token = toks
    /\ config_path = [p \in procs |-> DefaultConfig]
    /\ env_lines = [p \in procs |-> <<>>]
    /\ response = [p \in procs |-> NoResponse]
    /\ requests = [p \in procs |-> 0]
    /\ exit_status = [p \in procs |-> -1]
    /\ out = [p \in procs |-> <<>>]
OneRun == {1}
TwoRuns == {1, 2}
NoRuns == Runs(OneRun, "idle", [p \in OneRun |-> None])

\* history: the file system at the start and at the last call of
\* save_token_to_config, that call's number and path, the token and path of
\* the call before it and whether that one returned, the paths opened for
\* writing since the call, the last run to write, the runs whose open failed,
\* whether a run opened the file between another run's open and its write
HistAt(files) ==
    [fs0 |-> files, before |-> files, saves |-> 0, path |-> DefaultConfig,
     prev_token |-> None, prev_path |-> DefaultConfig, prev_saved |-> FALSE,
     opened |-> {}, last_writer |-> 0, failed |-> {}, torn |-> FALSE]
NoEnviron == [set |-> FALSE, val |-> <<>>]
NotNested == [status |-> "none"]

----------------------------------------------------------------------------
(* SpecParse: parse_config_file applied to every generated config file.    *)

InitParse ==
    /\ \E f \in {NoFile} \cup {File(d) : d \in QuoteFiles \cup ParseFiles} :
          fs = [EmptyFs EXCEPT ![DefaultConfig] = f]
    /\ environ = NoEnviron
    /\ flat = EmptyMap
    /\ parsed = NotParsed
    /\ nested = NotNested
    /\ NoRuns
    /\ hist = HistAt(fs)

ParseConfigFile ==
    /\ parsed.status = "none"
    /\ parsed' = parse_config_file(fs, DefaultConfig)
    /\ UNCHANGED <<fs, environ, flat, nested, runVars, hist>>

NextParse == ParseConfigFile

SpecParse == InitParse /\ [][NextParse]_vars

----------------------------------------------------------------------------
(* Claims about parse_config_file (checked under SpecParse).               *)

ConfigLines == ReadLines(fs[DefaultConfig].data)

\* a line that is blank, or whose first non-blank character is '#'
BlankOrComment(l) ==
    LET ink == {j \in 1..Len(l) : ~IsSpace(l[j])}
    IN  ink = {} \/ l[SetMin(ink)] = "#"

\* the numbers of the lines that are neither skipped nor hold a '='
MalformedLines ==
    {i \in 1..Len(ConfigLines) :
        /\ ~BlankOrComment(ConfigLines[i])
        /\ \A j \in 1..Len(ConfigLines[i]) : ConfigLines[i][j] # EQ}

EntryLines == {i \in 1..Len(ConfigLines) : ~BlankOrComment(ConfigLines[i])}

\* C7: the trimmed value of a line has its outer quotes stripped exactly when
\* its length is at least 2 and its first and last characters are the same
\* quote character; one pair is removed, the interior is kept; in every other
\* case (a lone quote character, mismatched quotes) the value is stored
\* unchanged.  Stated for the one-line files  k=<value>.
C7_QuotesStrippedOnlyFromPairs ==
    (/\ parsed.status = "ok"
     /\ Len(ConfigLines) = 1
     /\ StartsWith(ConfigLines[1], Str_k \o <<EQ>>))
    => LET v == Strip(SubSeq(ConfigLines[1], 3, Len(ConfigLines[1])))
           paired == /\ Len(v) >= 2
                     /\ v[1] = v[Len(v)]
                     /\ v[1] \in {DQ, SQ}
       IN  /\ Str_k \in DOMAIN parsed.config
           /\ parsed.config[Str_k] = IF paired THEN SubSeq(v, 2, Len(v) - 1) ELSE v

\* C8: blank lines and comment lines are skipped; the first remaining line
\* without '=' fails the parse with ValueError carrying that line's 1-based
\* number in the file (skipped lines counted) and no mapping is returned; a
\* file of only blank and comment lines parses to the empty mapping.
C8_InvalidFormatAtFirstMalformedLine ==
    (parsed.status # "none" /\ fs[DefaultConfig].exists)
    => IF MalformedLines # {}
       THEN /\ parsed.status = "ValueError"
            /\ parsed.line_num = SetMin(MalformedLines)
            /\ parsed.line = Strip(ConfigLines[parsed.line_num])
       ELSE /\ parsed.status = "ok"
            /\ Cardinality(DOMAIN parsed.config) <= Cardinality(EntryLines)
            /\ (EntryLines = {} => parsed.config = EmptyMap)

\* a malformed third line behind a comment line and a blank line
C8_Witness ==
    /\ parsed.status = "ValueError"
    /\ parsed.line_num = 3
    /\ BlankOrComment(ConfigLines[1])
    /\ BlankOrComment(ConfigLines[2])
    /\ Contains(ConfigLines[1], "#")

----------------------------------------------------------------------------
(* SpecNorm: create_nested_config over every combination of the sources.   *)

\* .env lines whose values carry the letter v
NormLinePalette(v) ==
    { NAME \o <<EQ, v>>,
      NAME \o <<EQ>>,
      <<" ">> \o NAME \o <<EQ, " ", v, v, " ">>,
      <<"F", "O", "O", EQ>> \o NAME \o <<EQ, "x">> }
NormFiles(v) ==
    {NoFile} \cup
    {File(WriteLines(Terminated(ls))) : ls \in SeqsUpTo(NormLinePalette(v), MaxNormLines)}

EnvironValues == {NoEnviron, [set |-> TRUE, val |-> <<>>], [set |-> TRUE, val |-> <<"E">>]}

FullFlat ==
    (K_TITLE :> <<"t">>) @@ (K_BGG_USERNAME :> <<"u">>) @@ (K_GITHUB_REPO :> <<"r">>)
Without(m, k) == [x \in DOMAIN m \ {k} |-> m[x]]
FlatConfigs ==
    LET bases == {FullFlat} \cup {Without(FullFlat, RequiredKeys[i]) : i \in 1..3}
    IN  bases \cup {b @@ (K_BGG_TOKEN :> t) : b \in bases, t \in {<<>>, <<"C">>}}

InitNorm ==
    /\ \E c \in NormFiles("F"), r \in NormFiles("R") :
          fs = [EmptyFs EXCEPT ![PathOf(CWD, DOT_ENV)] = c, ![PathOf(REPO, DOT_ENV)] = r]
    /\ environ \in EnvironValues
    /\ flat \in FlatConfigs
    /\ parsed = NotParsed
    /\ nested = NotNested
    /\ NoRuns
    /\ hist = HistAt(fs)

CreateNestedConfig ==
    /\ nested.status = "none"
    /\ nested' = create_nested_config(flat, environ, fs)
    /\ UNCHANGED <<fs, environ, flat, parsed, runVars, hist>>

NextNorm == CreateNestedConfig

SpecNorm == InitNorm /\ [][NextNorm]_vars

\* what a candidate .env file yields: the trimmed text behind the first '=' of
\* its first line that starts with GAMECACHE_BGG_TOKEN= (nothing without one)
FileYield(path) ==
    LET ls == ReadLines(fs[path].data)
        hits == {i \in 1..Len(ls) : StartsWith(Strip(ls[i]), TOKEN_PREFIX)}
    IN  IF ~fs[path].exists \/ hits = {} THEN <<>>
        ELSE LET l == Strip(ls[SetMin(hits)])
             IN  Strip(SubSeq(l, Len(TOKEN_PREFIX) + 1, Len(l)))

EnvironYield == IF environ.set THEN environ.val ELSE <<>>
CwdYield == FileYield(PathOf(CWD, DOT_ENV))
RepoYield == FileYield(PathOf(REPO, DOT_ENV))

\* C1: strict precedence of the token sources.  A non-empty environment
\* variable wins whatever the files and the flat config hold; otherwise the
\* first candidate .env file that yields a non-empty value wins whatever the
\* flat config holds; otherwise the flat config's bgg_token if present; and
\* with no source the boardgamegeek section has no token key.
C1_TokenPrecedence ==
    nested.status = "ok" =>
        LET bgg == nested.boardgamegeek
        IN  IF EnvironYield # <<>> THEN "token" \in DOMAIN bgg /\ bgg["token"] = EnvironYield
            ELSE IF CwdYield # <<>> THEN "token" \in DOMAIN bgg /\ bgg["token"] = CwdYield
            ELSE IF RepoYield # <<>> THEN "token" \in DOMAIN bgg /\ bgg["token"] = RepoYield
            ELSE IF K_BGG_TOKEN \in DOMAIN flat
                 THEN "token" \in DOMAIN bgg /\ bgg["token"] = flat[K_BGG_TOKEN]
            ELSE "token" \notin DOMAIN bgg

\* the token comes from the second candidate file although the first file
\* exists (with an empty entry) and the flat config has a bgg_token
C1_Witness ==
    /\ nested.status = "ok"
    /\ EnvironYield = <<>>
    /\ fs[PathOf(CWD, DOT_ENV)].exists
    /\ CwdYield = <<>>
    /\ K_BGG_TOKEN \in DOMAIN flat
    /\ flat[K_BGG_TOKEN] # <<>>
    /\ "token" \in DOMAIN nested.boardgamegeek
    /\ nested.boardgamegeek["token"] = <<"R">>

----------------------------------------------------------------------------
(* save_token_to_config, statement by statement, for run p.                *)

\* the call itself: the arguments are bound, the history notes the call
EnterSave(p, tok, path) ==
    /\ token' = [token EXCEPT ![p] = tok]
    /\ config_path' = [config_path EXCEPT ![p] = path]
    /\ env_lines' = [env_lines EXCEPT ![p] = <<>>]
    /\ hist' = [hist EXCEPT !.before = fs, !.saves = @ + 1, !.path = path,
                            !.prev_token = token[p], !.prev_path = config_path[p],
                            !.prev_saved = (pc[p] = "saved"), !.opened = {}]

\* setup_bgg_token.py:109-129  the file is read and env_lines computed
SaveRead(p) ==
    /\ pc[p] = "save_read"
    /\ env_lines' = [env_lines EXCEPT
                        ![p] = compute_env_lines(fs[env_file_of(config_path[p])], token[p])]
    /\ pc' = [pc EXCEPT ![p] = "save_open"]
    /\ UNCHANGED <<fs, environ, flat, parsed, nested, username, token, config_path,
                   response, requests, exit_status, out, hist>>

\* setup_bgg_token.py:132  open(env_file, 'w') creates or truncates the file
SaveOpen(p) ==
    /\ pc[p] = "save_open"
    /\ fs' = [fs EXCEPT ![env_file_of(config_path[p])] = File(<<>>)]
    /\ hist' = [hist EXCEPT !.opened = @ \cup {env_file_of(config_path[p])},
                            !.torn = @ \/ \E q \in DOMAIN pc \ {p} : pc[q] = "save_write"]
    /\ pc' = [pc EXCEPT ![p] = "save_write"]
    /\ UNCHANGED <<environ, flat, parsed, nested, username, token, config_path,
                   env_lines, response, requests, exit_status, out>>

\* setup_bgg_token.py:132  open(env_file, 'w') raises OSError (no permission,
\* read-only directory, no such directory); nothing in the function catches it
SaveOpenFails(p) ==
    /\ pc[p] = "save_open"
    /\ pc' = [pc EXCEPT ![p] = "raised"]
    /\ hist' = [hist EXCEPT !.failed = @ \cup {p}]
    /\ UNCHANGED <<fs, environ, flat, parsed, nested, username, token, config_path,
                   env_lines, response, requests, exit_status, out>>

\* setup_bgg_token.py:133-138  writelines, the close that flushes the buffer
\* at the start of the file, the two messages, return True
SaveWrite(p) ==
    /\ pc[p] = "save_write"
    /\ LET e == env_file_of(config_path[p])
       IN  fs' = [fs EXCEPT ![e] = File(WriteAt0(WriteLines(env_lines[p]), fs[e].data))]
    /\ out' = [out EXCEPT ![p] = @ \o <<Msg("token_saved"), Msg("stored_in_env")>>]
    /\ hist' = [hist EXCEPT !.last_writer = p]
    /\ pc' = [pc EXCEPT ![p] = "saved"]
    /\ UNCHANGED <<environ, flat, parsed, nested, username, token, config_path,
                   env_lines, response, requests, exit_status>>

----------------------------------------------------------------------------
(* setup_bgg_token.py: main, for run p.                                    *)

TOK1 == <<"T", "1">>
TOK2 == <<"T", "2", "2">>

SuccessValues ==
    {JBool(TRUE), JBool(FALSE), None, JNum(0), JNum(1), JStr(<<>>), JStr(<<"n", "o">>)}
TokenValues == {None, JStr(<<>>), JStr(TOK1), JNum(0), JNum(7)}
DictPayloads ==
    {Payload("dict", TRUE, sv, TRUE, tv, o) :
        sv \in SuccessValues, tv \in TokenValues, o \in BOOLEAN} \cup
    {Payload("dict", TRUE, sv, FALSE, None, o) : sv \in SuccessValues, o \in BOOLEAN} \cup
    {Payload("dict", FALSE, None, TRUE, tv, o) : tv \in TokenValues, o \in BOOLEAN} \cup
    {Payload("dict", FALSE, None, FALSE, None, o) : o \in BOOLEAN}
Responses ==
    {Raised(w) : w \in SUBSET Keywords} \cup
    {Returned(d) : d \in {NoPayload, ListPayload} \cup DictPayloads}

\* no_username without the test of line 148
no_username_unchecked(u) == FALSE

\* setup_bgg_token.py:148  `if not username`
no_username(u) == u = <<>>

\* setup_bgg_token.py:138  the one return statement of save_token_to_config
save_returns == TRUE

Exit(p, status) ==
    /\ pc' = [pc EXCEPT ![p] = "exited"]
    /\ exit_status' = [exit_status EXCEPT ![p] = status]

\* setup_bgg_token.py:143-149
AcquireUsername(p) ==
    /\ pc[p] = "main"
    /\ LET r == get_bgg_username_from_config(fs, DefaultConfig)
       IN  /\ username' = [username EXCEPT ![p] = r.username]
           /\ out' = [out EXCEPT ![p] = <<Msg("title")>> \o r.out]
           /\ IF no_username(r.username)
              THEN Exit(p, 1)
              ELSE pc' = [pc EXCEPT ![p] = "request"] /\ UNCHANGED exit_status
    /\ parsed' = parse_config_file(fs, DefaultConfig)
    /\ UNCHANGED <<fs, environ, flat, nested, token, config_path, env_lines,
                   response, requests, hist>>

\* setup_bgg_token.py:151-160  the remote call, its interpretation, and on
\* success the call of save_token_to_config(token)
RequestToken(p) ==
    /\ pc[p] = "request"
    /\ \E r \in Responses :
          LET g == generate_token_via_worker(r)
          IN  /\ response' = [response EXCEPT ![p] = r]
              /\ requests' = [requests EXCEPT ![p] = @ + 1]
              /\ IF ~Truthy(g.token)
                 THEN /\ out' = [out EXCEPT ![p] = @ \o g.out \o
                                    <<Msg("failed_to_generate"), Msg("manual_token_url")>>]
                      /\ token' = [token EXCEPT ![p] = g.token]
                      /\ Exit(p, 1)
                      /\ UNCHANGED <<config_path, env_lines, hist>>
                 ELSE /\ out' = [out EXCEPT ![p] = @ \o g.out]
                      /\ EnterSave(p, g.token, DefaultConfig)
                      /\ pc' = [pc EXCEPT ![p] = "save_read"]
                      /\ UNCHANGED exit_status
    /\ UNCHANGED <<fs, environ, flat, parsed, nested, username>>

\* setup_bgg_token.py:160-172  save_token_to_config has returned
AfterSave(p) ==
    /\ pc[p] = "saved"
    /\ IF ~save_returns
       THEN /\ out' = [out EXCEPT ![p] = @ \o
                          <<Msg("not_saved_automatically"),
                            MsgVal("create_env_with", NAME \o <<EQ>> \o Format(token[p]))>>]
            /\ Exit(p, 1)
       ELSE /\ out' = [out EXCEPT ![p] = @ \o <<Msg("success")>>]
            /\ Exit(p, 0)
    /\ UNCHANGED <<fs, environ, flat, parsed, nested, username, token, config_path,
                   env_lines, response, requests, hist>>

\* the OSError leaves save_token_to_config and main: the interpreter prints
\* the traceback and the process ends with status 1
Uncaught(p) ==
    /\ pc[p] = "raised"
    /\ out' = [out EXCEPT ![p] = @ \o <<Msg("traceback")>>]
    /\ Exit(p, 1)
    /\ UNCHANGED <<fs, environ, flat, parsed, nested, username, token, config_path,
                   env_lines, response, requests, hist>>

----------------------------------------------------------------------------
(* .env files the persister meets.                                         *)

EnvLinePalette ==
    { NAME \o <<EQ, "o">>,
      NAME \o <<"_", "X", EQ, "x">>,
      <<"F", EQ, "1">>,
      <<" ">> \o NAME \o <<" ", EQ, "s">> }
\* every line terminated, or all but the last
EnvTexts ==
    LET bodies == SeqsUpTo(EnvLinePalette, MaxEnvLines)
    IN  {WriteLines(Terminated(ls)) : ls \in bodies} \cup
        {SubSeq(WriteLines(Terminated(ls)), 1, Len(WriteLines(Terminated(ls))) - 1) :
            ls \in bodies \ {<<>>}}
EnvFiles == {NoFile} \cup {File(d) : d \in EnvTexts}

Line_username == K_BGG_USERNAME \o <<EQ, "a", "l", NL>>
Line_title == K_TITLE \o <<EQ, "g", NL>>

----------------------------------------------------------------------------
(* SpecMain: one provisioning run.                                         *)

MainConfigFiles ==
    { NoFile,
      File(Line_username),
      File(Line_title \o Line_username),
      File(K_BGG_USERNAME \o <<" ", EQ, " ", SQ, SQ, NL>>),
      File(Line_title),
      File(<<"#", NL>> \o K_BGG_USERNAME \o <<NL>>) }
MainEnvFiles ==
    { NoFile, File(NAME \o <<EQ, "o", NL>>), File(<<"F", EQ, "1", NL>>),
      File(<<"F", EQ, "1">>) }

InitMain ==
    /\ \E c \in MainConfigFiles, e \in MainEnvFiles :
          fs = [EmptyFs EXCEPT ![DefaultConfig] = c, ![PathOf(CWD, DOT_ENV)] = e]
    /\ environ = NoEnviron
    /\ flat = EmptyMap
    /\ parsed = NotParsed
    /\ nested = NotNested
    /\ Runs(OneRun, "main", [p \in OneRun |-> None])
    /\ hist = HistAt(fs)

NextMain ==
    \/ \E p \in OneRun : AcquireUsername(p)
    \/ \E p \in OneRun : RequestToken(p)
    \/ \E p \in OneRun : SaveRead(p)
    \/ \E p \in OneRun : SaveOpen(p)
    \/ \E p \in OneRun : SaveOpenFails(p)
    \/ \E p \in OneRun : SaveWrite(p)
    \/ \E p \in OneRun : AfterSave(p)
    \/ \E p \in OneRun : Uncaught(p)

SpecMain == InitMain /\ [][NextMain]_vars

----------------------------------------------------------------------------
(* SpecSave: save_token_to_config called up to MaxSaves times, and the     *)
(* normalizer run on what it left.                                         *)

SaveTokens == {JStr(TOK1), JStr(TOK2)}
SavePaths == {PathOf(CWD, CONFIG_INI), PathOf(CWD, DOT_ENV), PathOf(REPO, CONFIG_INI)}

InitSave ==
    /\ \E e \in EnvFiles :
          fs = [EmptyFs EXCEPT ![PathOf(CWD, CONFIG_INI)] = File(Line_title \o Line_username),
                               ![PathOf(REPO, CONFIG_INI)] = File(Line_username),
                               ![PathOf(CWD, DOT_ENV)] = e]
    /\ environ = NoEnviron
    /\ flat = FullFlat
    /\ parsed = NotParsed
    /\ nested = NotNested
    /\ NoRuns
    /\ hist = HistAt(fs)

SaveCall(p) ==
    /\ pc[p] \in {"idle", "saved", "raised"}
    /\ hist.saves < MaxSaves
    /\ \E tok \in SaveTokens, path \in SavePaths : EnterSave(p, tok, path)
    /\ pc' = [pc EXCEPT ![p] = "save_read"]
    /\ nested' = NotNested
    /\ UNCHANGED <<fs, environ, flat, parsed, username, response, requests,
                   exit_status, out>>

\* create_nested_config on the files a completed save left
NormalizeAfterSave(p) ==
    /\ pc[p] = "saved"
    /\ nested.status = "none"
    /\ nested' = create_nested_config(flat, environ, fs)
    /\ UNCHANGED <<fs, environ, flat, parsed, runVars, hist>>

NextSave ==
    \/ \E p \in OneRun : SaveCall(p)
    \/ \E p \in OneRun : SaveRead(p)
    \/ \E p \in OneRun : SaveOpen(p)
    \/ \E p \in OneRun : SaveOpenFails(p)
    \/ \E p \in OneRun : SaveWrite(p)
    \/ \E p \in OneRun : NormalizeAfterSave(p)

SpecSave == InitSave /\ [][NextSave]_vars

----------------------------------------------------------------------------
(* SpecRace: two runs persist different tokens to the same .env file.      *)

InitRace ==
    /\ \E e \in EnvFiles : fs = [EmptyFs EXCEPT ![PathOf(CWD, DOT_ENV)] = e]
    /\ environ = NoEnviron
    /\ flat = FullFlat
    /\ parsed = NotParsed
    /\ nested = NotNested
    /\ Runs(TwoRuns, "save_read", (1 :> JStr(TOK1)) @@ (2 :> JStr(TOK2)))
    /\ hist = HistAt(fs)

NextRace ==
    \/ \E p \in TwoRuns : SaveRead(p)
    \/ \E p \in TwoRuns : SaveOpen(p)
    \/ \E p \in TwoRuns : SaveWrite(p)

SpecRace == InitRace /\ [][NextRace]_vars

----------------------------------------------------------------------------
(* Claims about main (checked under SpecMain).                             *)

SecretsFile == PathOf(CWD, DOT_ENV)

\* the payload of the response is an object whose success and token are true
\* values in Python's sense
TruthyPayload(r) ==
    /\ ~r.raised
    /\ r.data.kind = "dict"
    /\ r.data.has_success /\ Truthy(r.data.success)
    /\ r.data.has_token /\ Truthy(r.data.token)

\* ... whose success equals True (as true and 1 do) and whose token is a
\* true value
SuccessTruePayload(r) ==
    /\ ~r.raised
    /\ r.data.kind = "dict"
    /\ r.data.has_success /\ r.data.success \in {JBool(TRUE), JNum(1)}
    /\ r.data.has_token /\ Truthy(r.data.token)

\* C4: when the token was generated but opening the secrets file for writing
\* failed, the run ends by telling the operator that the token was not saved
\* and by printing the token; the failure is not raised out of the persister.
C4_WriteFailureShowsToken ==
    \A p \in DOMAIN pc :
        (p \in hist.failed /\ pc[p] = "exited")
        => /\ Said(out[p], "not_saved_automatically")
           /\ \E i \in 1..Len(out[p]) :
                 /\ out[p][i].msg = "create_env_with"
                 /\ out[p][i].val = NAME \o <<EQ>> \o Format(token[p])
           /\ ~Said(out[p], "traceback")

\* C5: the three stages run strictly in order.  The remote request is sent at
\* most once and only with the non-empty bgg_username read from the config;
\* the secrets file is opened or changed only after the remote call returned an
\* accepted token; a run whose username or token stage failed has exit status
\* 1, did not perform a later stage and left the files as they were; a run
\* with exit status 0 performed all three.
C5_StagesInOrder ==
    \A p \in DOMAIN pc :
        /\ requests[p] <= 1
        /\ requests[p] = 1
           => /\ username[p] # <<>>
              /\ parsed.status = "ok"
              /\ K_BGG_USERNAME \in DOMAIN parsed.config
              /\ parsed.config[K_BGG_USERNAME] = username[p]
        /\ (\/ hist.opened # {}
            \/ fs # hist.fs0
            \/ pc[p] \in {"save_read", "save_open", "save_write", "saved", "raised"})
           => /\ requests[p] = 1
              /\ TruthyPayload(response[p])
              /\ token[p] = response[p].data.token
        /\ (pc[p] = "exited" /\ username[p] = <<>>)
           => exit_status[p] = 1 /\ requests[p] = 0 /\ fs = hist.fs0 /\ hist.opened = {}
        /\ (pc[p] = "exited" /\ requests[p] = 1 /\ ~TruthyPayload(response[p]))
           => exit_status[p] = 1 /\ fs = hist.fs0 /\ hist.opened = {}
        /\ exit_status[p] = 0
           => requests[p] = 1 /\ hist.opened = {SecretsFile} /\ Said(out[p], "token_saved")
        /\ pc[p] # "exited" => exit_status[p] = -1

\* a run that ended with status 1 after its one request was refused, with the
\* files untouched
C5_Witness ==
    /\ pc[1] = "exited"
    /\ exit_status[1] = 1
    /\ requests[1] = 1
    /\ response[1].data.kind = "dict"
    /\ response[1].data.has_token
    /\ fs = hist.fs0
    /\ fs[SecretsFile].exists

\* C6 as stated: a token is returned exactly when the call returned a payload
\* with success equal to true and a non-empty token, and it is that token;
\* otherwise nothing is returned; nothing is raised.
C6_TokenIffSuccessTrue ==
    \A p \in DOMAIN pc :
        requests[p] = 1
        => /\ token[p] = IF SuccessTruePayload(response[p])
                         THEN response[p].data.token ELSE None
           /\ (hist.failed = {} => pc[p] # "raised")

\* C6 as amended: a token is returned exactly when the call returned an object
\* whose success and token are both true values in Python's sense (success may
\* be true, a non-zero number or a non-empty string), and it is that token;
\* otherwise (success false, 0, "" or null, a missing success or token, an
\* empty object, no payload, a non-object payload, any transport failure) None
\* is returned; nothing is raised.
C6_TokenIffTruthySuccessAndToken ==
    \A p \in DOMAIN pc :
        requests[p] = 1
        => /\ token[p] = IF TruthyPayload(response[p])
                         THEN response[p].data.token ELSE None
           /\ (hist.failed = {} => pc[p] # "raised")

\* a payload whose success is the string "no" had its token returned
C6_Witness ==
    /\ requests[1] = 1
    /\ response[1].data.success = JStr(<<"n", "o">>)
    /\ token[1] = JStr(TOK1)
    /\ pc[1] = "save_read"

----------------------------------------------------------------------------
(* Claims about save_token_to_config (checked under SpecSave).             *)

\* the .env beside the config file of the last call
Sibling == PathOf(hist.path.dir, DOT_ENV)

\* an entry for the variable: the name, then '=' (blanks allowed around both)
IsTokenEntry(l) ==
    LET t == Strip(l)
    IN  /\ StartsWith(t, NAME)
        /\ StartsWith(Strip(SubSeq(t, Len(NAME) + 1, Len(t))), <<EQ>>)

\* C2: after save_token_to_config(token, config_path) returned, a secrets file
\* that did not exist holds exactly GAMECACHE_BGG_TOKEN=<token>; one that
\* existed holds its lines in their order, every entry of GAMECACHE_BGG_TOKEN
\* rewritten to the canonical line, every other line (entries of other
\* variables too) verbatim, and the canonical line appended only when there
\* was no entry.
C2_OnlyTokenEntriesRewritten ==
    \A p \in DOMAIN pc :
        pc[p] = "saved"
        => LET old == hist.before[Sibling]
               canon == NAME \o <<EQ>> \o token[p].s \o <<NL>>
               L == ReadLines(old.data)
               kept == [i \in 1..Len(L) |-> IF IsTokenEntry(L[i]) THEN canon ELSE L[i]]
           IN  /\ fs[Sibling].exists
               /\ fs[Sibling].data =
                     IF ~old.exists THEN canon
                     ELSE IF \E i \in 1..Len(L) : IsTokenEntry(L[i])
                     THEN WriteLines(kept)
                     ELSE WriteLines(kept) \o canon

\* C3 as stated: whatever config_path is passed, the config file holds after
\* the call what it held before.
C3_ConfigNeverWritten ==
    (pc[1] = "saved" /\ hist.before[hist.path].exists)
    => fs[hist.path] = hist.before[hist.path]

\* C3 as amended: for every config_path whose file name is not .env, and every
\* sequence of calls, the config file holds after the call what it held
\* before; in every case the only file opened for writing is the .env in the
\* config file's directory and every other file is left as it was.
C3_OnlyEnvSiblingWritten ==
    hist.saves >= 1
    => /\ hist.opened \subseteq {Sibling}
       /\ \A q \in Paths \ {Sibling} : fs[q] = hist.before[q]
       /\ hist.path.name # DOT_ENV => fs[hist.path] = hist.before[hist.path]
       /\ \A q \in Paths : q.name # DOT_ENV => fs[q] = hist.fs0[q]

\* a second call, for a config.ini, has returned and changed the .env
C3_Witness ==
    /\ pc[1] = "saved"
    /\ hist.saves = 2
    /\ hist.path.name = CONFIG_INI
    /\ fs[hist.path].exists
    /\ fs[Sibling] # hist.before[Sibling]

\* C9: after save_token_to_config(T) wrote the .env of the current directory,
\* create_nested_config (environment variable unset) resolves the token to T,
\* whatever the file held before; and writing the same token again leaves the
\* file as it is.
C9_SavedTokenIsResolved ==
    /\ (nested.status = "ok" /\ hist.path.dir = CWD)
       => /\ "token" \in DOMAIN nested.boardgamegeek
          /\ nested.boardgamegeek["token"] = token[1].s
    /\ (/\ pc[1] = "saved"
        /\ hist.prev_saved
        /\ hist.prev_token = token[1]
        /\ hist.prev_path = hist.path)
       => fs = hist.before

----------------------------------------------------------------------------
(* Claim about two racing runs (checked under SpecRace).                   *)

HasText(s, t) == \E i \in 1..(Len(s) - Len(t) + 1) : SubSeq(s, i, i + Len(t) - 1) = t

\* C10: in every interleaving of the two whole-file reads and the two
\* whole-file rewrites (no run opens the file between the other's open and
\* write), once both runs are done the file is exactly the content computed by
\* the run that wrote last: it holds that run's token and not the other run's.
C10_LastWriterWins ==
    (~hist.torn /\ \A p \in DOMAIN pc : pc[p] = "saved")
    => LET w == hist.last_writer
           data == fs[SecretsFile].data
       IN  /\ data = WriteLines(env_lines[w])
           /\ HasText(data, token[w].s)
           /\ \A o \in DOMAIN pc \ {w} : ~HasText(data, token[o].s)

====
